---- MODULE Spec2Model ----
(***************************************************************************)
(* A model of the SKU table tool: the Row Store of App.tsx (add, remove,   *)
(* status update, batch update, synchronised cell edit, reset) and the     *)
(* filter / unique-column engine of DataGrid.tsx.                          *)
(*                                                                         *)
(* Strings are sequences of characters.  A character is a one-letter       *)
(* string; a non-ASCII character is written as its code point, "U5546"     *)
(* for U+5546.  A row is a record [id, checkStatus, cells] whose cells map *)
(* the column names the row carries to strings: a column the row does not  *)
(* carry reads as JavaScript's undefined.                                  *)
(***************************************************************************)
EXTENDS Integers, Sequences, FiniteSets, TLC

VARIABLES
    rows,                 \* project.rows                      (App.tsx:61)
    last,                 \* the operation that produced this state, with its inputs
    now,                  \* the value Date.now() returns
    openFilterHeader,     \* DataGrid state                    (DataGrid.tsx:86)
    activeFilters,        \*                                   (DataGrid.tsx:87)
    uniqueColumns,        \*                                   (DataGrid.tsx:88)
    tempFilterSelection,  \*                                   (DataGrid.tsx:89)
    shown,                \* the memoised filteredData         (DataGrid.tsx:218)
    stats,                \* the stats the open menu lists     (DataGrid.tsx:500)
    saved,                \* localStorage['sku_gen_db']        (App.tsx:69)
    activeTab,            \* CleaningPanel state              (part_001:22)
    isLoading,            \*                                   (part_001:25)
    isConfirmingReset,    \*                                   (part_001:34)
    inFlight              \* the collaborator calls awaited, each with the
                          \* currentRows its handler was called with

vars == <<rows, last, now, openFilterHeader, activeFilters, uniqueColumns,
          tempFilterSelection, shown, stats, saved, activeTab, isLoading,
          isConfirmingReset, inFlight>>

gridVars == <<openFilterHeader, activeFilters, uniqueColumns, tempFilterSelection, shown,
              stats>>

panelVars == <<activeTab, isLoading, isConfirmingReset, inFlight>>

\* The panel as it is mounted: the first tab, nothing loading, no reset
\* asked for, no call awaited.
PanelIdle ==
    /\ activeTab = "initial"
    /\ isLoading = FALSE
    /\ isConfirmingReset = FALSE
    /\ inFlight = <<>>

-----------------------------------------------------------------------------
(* Bounds of the model.                                                    *)

MaxRows == 2

-----------------------------------------------------------------------------
(* Column names.                                                           *)

ColStatus      == <<"U72B6", "U6001">>                                  \* 状态
ColName        == <<"U5546", "U54C1", "U540D", "U79F0">>                \* 商品名称
ColPrice       == <<"U5546", "U54C1", "U4EF7", "U683C">>                \* 商品价格
ColLength      == <<"U957F">>                                           \* 长
ColWidth       == <<"U5BBD">>                                           \* 宽
ColHeight      == <<"U9AD8">>                                           \* 高
ColProductCode == <<"U5546", "U54C1", "U5546", "U5BB6", "U7F16", "U7801">>  \* 商品商家编码
ColSkuSpec     == <<"S", "K", "U", "U89C4", "U683C">>                   \* SKU规格
ColSkuPrice    == <<"S", "K", "U", "U4EF7", "U683C">>                   \* SKU价格
ColSkuCode     == <<"S", "K", "U", "U5546", "U5BB6", "U7F16", "U7801">> \* SKU商家编码
ColDetail      == <<"U5546", "U54C1", "U8BE6", "U60C5">>                \* 商品详情
ColOverlay     == <<"U900F", "U660E", "U7D20", "U6750", "U56FE">>       \* 透明素材图
ColVideo       == <<"U4E3B", "U56FE", "U89C6", "U9891">>                \* 主图视频

\* const HEADERS, in its order.
HEADERS ==
    << ColStatus,
       ColName, ColPrice,
       <<"U5546", "U54C1", "U62FC", "U5355", "U4EF7">>,       \* 商品拼单价
       <<"U5546", "U54C1", "U5212", "U7EBF", "U4EF7">>,       \* 商品划线价
       <<"U5546", "U54C1", "U6210", "U672C", "U4EF7">>,       \* 商品成本价
       <<"U5546", "U54C1", "U5E93", "U5B58">>,                \* 商品库存
       <<"U5546", "U54C1", "U91CD", "U91CF">>,                \* 商品重量
       ColLength, ColWidth, ColHeight, ColProductCode,
       <<"U5546", "U54C1", "U6761", "U5F62", "U7801">>,       \* 商品条形码
       ColSkuSpec,
       <<"S", "K", "U", "U5212", "U7EBF", "U4EF7">>,          \* SKU划线价
       ColSkuPrice,
       <<"S", "K", "U", "U62FC", "U5355", "U4EF7">>,          \* SKU拼单价
       <<"S", "K", "U", "U6210", "U672C", "U4EF7">>,          \* SKU成本价
       <<"S", "K", "U", "U5E93", "U5B58">>,                   \* SKU库存
       <<"S", "K", "U", "U91CD", "U91CF">>,                   \* SKU重量
       ColSkuCode,
       <<"S", "K", "U", "U6761", "U5F62", "U7801">>,          \* SKU条形码
       <<"U5546", "U54C1", "U4E3B", "U56FE">>,                \* 商品主图
       <<"S", "K", "U", "U4E3B", "U89C4", "U683C", "U56FE">>, \* SKU主规格图
       ColDetail,
       <<"U5546", "U54C1", "U7C7B", "U76EE">>,                \* 商品类目
       <<"U5546", "U54C1", "U5206", "U7EC4">>,                \* 商品分组
       <<"U5546", "U54C1", "U5C5E", "U6027">>,                \* 商品属性
       <<"U5546", "U54C1", "U5356", "U70B9">>,                \* 商品卖点
       ColOverlay,
       <<"U5546", "U54C1", "U7AD6", "U56FE">>,                \* 商品竖图
       <<"U5546", "U54C1", "U957F", "U56FE">>,                \* 商品长图
       ColVideo >>

\* The columns the grid renders as editable cells: every header but 状态,
\* which is drawn as a read-only marker.
EditableColumns == {HEADERS[i] : i \in 1..Len(HEADERS)} \ {ColStatus}

-----------------------------------------------------------------------------
(* JavaScript strings.                                                     *)

\* String.prototype.startsWith
StartsWith(s, p) == Len(s) >= Len(p) /\ SubSeq(s, 1, Len(p)) = p

IsSpace(c) == c = " "

RECURSIVE TrimStart(_)
TrimStart(s) == IF s # <<>> /\ IsSpace(Head(s)) THEN TrimStart(Tail(s)) ELSE s

RECURSIVE TrimEnd(_)
TrimEnd(s) ==
    IF s # <<>> /\ IsSpace(s[Len(s)]) THEN TrimEnd(SubSeq(s, 1, Len(s) - 1)) ELSE s

\* String.prototype.trim
Trim(s) == TrimEnd(TrimStart(s))

\* String(undefined)
UndefinedStr == <<"u", "n", "d", "e", "f", "i", "n", "e", "d">>

-----------------------------------------------------------------------------
(* Rows.                                                                   *)

Has(row, col) == col \in DOMAIN row.cells

\* String(row[col])
Str(row, col) == IF Has(row, col) THEN row.cells[col] ELSE UndefinedStr

\* The truthiness of row[col]: undefined and '' are falsy.
Truthy(row, col) == Has(row, col) /\ row.cells[col] # <<>>

\* { ...cells, ...changes }
Spread(cells, changes) == changes @@ cells

Ids(rs) == {rs[i].id : i \in 1..Len(rs)}

\* The keys a row object keeps its id and its status under.
KeyId == <<"_", "i", "n", "t", "e", "r", "n", "a", "l", "_", "i", "d">>
KeyStatus == <<"c", "h", "e", "c", "k", "S", "t", "a", "t", "u", "s">>

\* A row as the object JSON.stringify writes: one key per cell, the id and
\* the status among them.
toObject(row) == (KeyId :> row.id) @@ (KeyStatus :> row.checkStatus) @@ row.cells

fromObject(obj) ==
    [id |-> obj[KeyId],
     checkStatus |-> obj[KeyStatus],
     cells |-> [k \in (DOMAIN obj) \ {KeyId, KeyStatus} |-> obj[k]]]

\* JSON.stringify(project.rows)
JSONstringify(table) == [i \in 1..Len(table) |-> toObject(table[i])]

\* JSON.parse(savedRows)
JSONparse(text) == [i \in 1..Len(text) |-> fromObject(text[i])]

-----------------------------------------------------------------------------
(* The derived data of the grid (DataGrid.tsx).                            *)

\* '(空白)'
BlankMarker == <<"(", "U7A7A", "U767D", ")">>

\* The canonical form of row[col]: null, undefined and whitespace-only
\* values read as the blank marker, everything else as its trimmed string.
canonical(row, col) ==
    IF ~Has(row, col)
    THEN BlankMarker
    ELSE IF Trim(row.cells[col]) = <<>> THEN BlankMarker ELSE Trim(row.cells[col])

\* The values getUniqueStats lists for a column (the keys of stats).
allValuesOf(data, column) == {canonical(data[i], column) : i \in 1..Len(data)}

\* The filter pass: every key of activeFilters allows the row's value.
passesAnyFilter(row, filters) ==
    \E colKey \in DOMAIN filters : canonical(row, colKey) \in filters[colKey]

passesFilters(row, filters) ==
    \A colKey \in DOMAIN filters : canonical(row, colKey) \in filters[colKey]

\* The dedup pass with every value recorded, those of dropped rows too.
RECURSIVE dedupRecordingDropped(_, _, _, _)
dedupRecordingDropped(result, k, unique, seenMaps) ==
    IF k > Len(result)
    THEN <<>>
    ELSE LET row == result[k]
             isDuplicate == \E col \in unique : canonical(row, col) \in seenMaps[col]
             seenNext == [col \in unique |-> seenMaps[col] \cup {canonical(row, col)}]
         IN  IF isDuplicate
             THEN dedupRecordingDropped(result, k + 1, unique, seenNext)
             ELSE <<row>> \o dedupRecordingDropped(result, k + 1, unique, seenNext)

\* The dedup pass keeping the latest row of each value.
RECURSIVE dedupKeepingLatest(_, _, _, _)
dedupKeepingLatest(result, k, unique, seenMaps) ==
    IF k > Len(result)
    THEN <<>>
    ELSE LET row == result[k]
             isDuplicate ==
                 \E col \in unique : \E j \in (k + 1)..Len(result) :
                     canonical(result[j], col) = canonical(row, col)
         IN  IF isDuplicate
             THEN dedupKeepingLatest(result, k + 1, unique, seenMaps)
             ELSE <<row>> \o dedupKeepingLatest(result, k + 1, unique, seenMaps)

\* The dedup pass comparing each row with the row just before it only.
RECURSIVE dedupAgainstPrevious(_, _, _, _)
dedupAgainstPrevious(result, k, unique, seenMaps) ==
    IF k > Len(result)
    THEN <<>>
    ELSE LET row == result[k]
             isDuplicate ==
                 /\ k > 1
                 /\ \E col \in unique : canonical(result[k - 1], col) = canonical(row, col)
         IN  IF isDuplicate
             THEN dedupAgainstPrevious(result, k + 1, unique, seenMaps)
             ELSE <<row>> \o dedupAgainstPrevious(result, k + 1, unique, seenMaps)

\* The dedup pass from row k of result on, seenMaps holding the values of
\* the rows kept so far.
RECURSIVE dedupFrom(_, _, _, _)
dedupFrom(result, k, unique, seenMaps) ==
    IF k > Len(result)
    THEN <<>>
    ELSE LET row == result[k]
             isDuplicate == \E col \in unique : canonical(row, col) \in seenMaps[col]
         IN  IF isDuplicate
             THEN dedupFrom(result, k + 1, unique, seenMaps)
             ELSE <<row>> \o dedupFrom(result, k + 1, unique,
                                 [col \in unique |-> seenMaps[col] \cup {canonical(row, col)}])

filteredData(data, filters, unique) ==
    IF Len(data) = 0
    THEN <<>>
    ELSE LET result == SelectSeq(data, LAMBDA row : passesFilters(row, filters))
         IN  IF unique # {}
             THEN dedupFrom(result, 1, unique, [col \in unique |-> {}])
             ELSE result

\* String.prototype.localeCompare on the letters of the model, as the root
\* collation orders them: by letter first (a, A before b, B; anything else
\* before the letters), and between strings of the same letters lower case
\* before upper case.
PrimaryWeight(c) ==
    IF c \in {"a", "A"} THEN 1
    ELSE IF c \in {"b", "B"} THEN 2
    ELSE IF c \in {"c", "C"} THEN 3
    ELSE 0

TertiaryWeight(c) == IF c \in {"A", "B", "C"} THEN 1 ELSE 0

\* The sign of the lexicographic comparison of two sequences of numbers.
RECURSIVE lexCompare(_, _)
lexCompare(x, y) ==
    IF x = <<>> /\ y = <<>> THEN 0
    ELSE IF x = <<>> THEN -1
    ELSE IF y = <<>> THEN 1
    ELSE IF Head(x) < Head(y) THEN -1
    ELSE IF Head(x) > Head(y) THEN 1
    ELSE lexCompare(Tail(x), Tail(y))

localeCompare(a, b) ==
    LET primary == lexCompare([i \in 1..Len(a) |-> PrimaryWeight(a[i])],
                              [i \in 1..Len(b) |-> PrimaryWeight(b[i])])
    IN  IF primary # 0
        THEN primary
        ELSE lexCompare([i \in 1..Len(a) |-> TertiaryWeight(a[i])],
                        [i \in 1..Len(b) |-> TertiaryWeight(b[i])])

\* stats.set(val, 1): a value counted once however often it occurs.
statsSetWithoutAdding(entries, val) ==
    IF \E i \in 1..Len(entries) : entries[i][1] = val
    THEN entries
    ELSE Append(entries, <<val, 1>>)

\* stats.set(val, (stats.get(val) || 0) + 1) on a Map kept as the list of
\* its entries <<val, count>> in insertion order.
statsSet(entries, val) ==
    IF \E i \in 1..Len(entries) : entries[i][1] = val
    THEN [i \in 1..Len(entries) |->
             IF entries[i][1] = val THEN <<val, entries[i][2] + 1>> ELSE entries[i]]
    ELSE Append(entries, <<val, 1>>)

\* data.forEach from row k on.
RECURSIVE countRows(_, _, _, _)
countRows(data, k, column, entries) ==
    IF k > Len(data)
    THEN entries
    ELSE countRows(data, k + 1, column, statsSet(entries, canonical(data[k], column)))

\* The comparator without its two blank-marker lines.
compareStatsByValueOnly(a, b) ==
    IF b[2] - a[2] # 0 THEN b[2] - a[2] ELSE localeCompare(a[1], b[1])

\* The comparator of the sort: negative when a goes first.
compareStats(a, b) ==
    IF b[2] - a[2] # 0 THEN b[2] - a[2]
    ELSE IF a[1] = BlankMarker THEN 1
    ELSE IF b[1] = BlankMarker THEN -1
    ELSE localeCompare(a[1], b[1])

\* One entry put into a sorted list, behind the entries it does not precede.
insertEntry(sorted, e) ==
    LET before == Cardinality({i \in 1..Len(sorted) : compareStats(sorted[i], e) <= 0})
    IN  SubSeq(sorted, 1, before) \o <<e>> \o SubSeq(sorted, before + 1, Len(sorted))

\* Array.prototype.sort (stable) with compareStats, from entry k on.
RECURSIVE sortStats(_, _, _)
sortStats(entries, k, sorted) ==
    IF k > Len(entries)
    THEN sorted
    ELSE sortStats(entries, k + 1, insertEntry(sorted, entries[k]))

getUniqueStats(data, column) == sortStats(countRows(data, 1, column, <<>>), 1, <<>>)

\* The stats the menu renders: those of the column whose menu is open.
menuStats(data, header) == IF header = <<>> THEN <<>> ELSE getUniqueStats(data, header)

\* What a change of project.rows does to the grid: the effect on [data]
\* clears filters and unique columns when no row is left, and filteredData
\* is computed anew.
GridFollows ==
    /\ activeFilters' = IF Len(rows') = 0 THEN <<>> ELSE activeFilters
    /\ uniqueColumns' = IF Len(rows') = 0 THEN {} ELSE uniqueColumns
    /\ shown' = filteredData(rows', activeFilters', uniqueColumns')
    /\ stats' = menuStats(rows', openFilterHeader)
    /\ UNCHANGED <<openFilterHeader, tempFilterSelection>>

-----------------------------------------------------------------------------
(* The Row Store (App.tsx).                                                *)

\* isProductScope in handleCellEdit
isProductScope(column) ==
    \/ StartsWith(column, <<"U5546", "U54C1">>)
    \/ column \in {ColLength, ColWidth, ColHeight, ColVideo, ColOverlay}

\* The columns whose edit resets checkStatus.
isCritical(column) == column = ColName \/ column = ColSkuSpec

\* codeSyncs without the test that the source's code is not blank.
codeSyncsWithoutBlankTest(sourceRow, row, codeCol) ==
    /\ Truthy(sourceRow, codeCol)
    /\ Str(row, codeCol) = Str(sourceRow, codeCol)

\* codeSyncs comparing the two codes after trimming them.
codeSyncsTrimmed(sourceRow, row, codeCol) ==
    /\ Truthy(sourceRow, codeCol)
    /\ Trim(Str(sourceRow, codeCol)) # <<>>
    /\ Trim(Str(row, codeCol)) = Trim(Str(sourceRow, codeCol))

\* The sync condition of handleCellEdit for a row other than the target:
\* the source's code is truthy and not blank, and the two codes are equal
\* as strings.
codeSyncs(sourceRow, row, codeCol) ==
    /\ Truthy(sourceRow, codeCol)
    /\ Trim(Str(sourceRow, codeCol)) # <<>>
    /\ Str(row, codeCol) = Str(sourceRow, codeCol)

shouldUpdate(sourceRow, row, rowId, column) ==
    IF row.id = rowId THEN TRUE
    ELSE IF isProductScope(column) THEN codeSyncs(sourceRow, row, ColProductCode)
    ELSE codeSyncs(sourceRow, row, ColSkuCode)

\* updatedRow without the reset of checkStatus.
updatedRowKeepingStatus(row, column, value) ==
    [row EXCEPT !.cells = Spread(row.cells, column :> value)]

updatedRow(row, column, value) ==
    LET r == [row EXCEPT !.cells = Spread(row.cells, column :> value)]
    IN  IF isCritical(column) THEN [r EXCEPT !.checkStatus = "unverified"] ELSE r

\* prev.rows.find(r => r._internal_id === rowId): the first such row.
FindIndex(rs, rowId) ==
    IF \E i \in 1..Len(rs) : rs[i].id = rowId
    THEN CHOOSE i \in 1..Len(rs) :
            /\ rs[i].id = rowId
            /\ \A j \in 1..(i - 1) : rs[j].id # rowId
    ELSE 0

handleCellEdit(prevRows, rowId, column, value) ==
    LET s == FindIndex(prevRows, rowId)
    IN  IF s = 0 THEN prevRows
        ELSE [i \in 1..Len(prevRows) |->
                IF shouldUpdate(prevRows[s], prevRows[i], rowId, column)
                THEN updatedRow(prevRows[i], column, value)
                ELSE prevRows[i]]

handleUpdateStatus(prevRows, ids, status) ==
    [i \in 1..Len(prevRows) |->
        IF prevRows[i].id \in ids
        THEN [prevRows[i] EXCEPT !.checkStatus = status]
        ELSE prevRows[i]]

\* A removal that takes the last row when it matched none.
handleRemoveRowsOrLast(prevRows, idsToRemove) ==
    IF \A i \in 1..Len(prevRows) : prevRows[i].id \notin idsToRemove
    THEN SubSeq(prevRows, 1, Len(prevRows) - 1)
    ELSE SelectSeq(prevRows, LAMBDA r : r.id \notin idsToRemove)

handleRemoveRows(prevRows, idsToRemove) ==
    LET keep(r) == r.id \notin idsToRemove
    IN  SelectSeq(prevRows, keep)

\* new Map(updates.map(u => [u.id, u.changes])).get(id): the changes of the
\* last update that names id.
updateMapGet(updates, id) ==
    LET k == CHOOSE i \in 1..Len(updates) :
                /\ updates[i].id = id
                /\ \A j \in (i + 1)..Len(updates) : updates[j].id # id
    IN  updates[k].changes

handleBatchUpdate(prevRows, updates) ==
    [i \in 1..Len(prevRows) |->
        IF \E k \in 1..Len(updates) : updates[k].id = prevRows[i].id
        THEN [prevRows[i] EXCEPT
                !.cells = Spread(prevRows[i].cells, updateMapGet(updates, prevRows[i].id))]
        ELSE prevRows[i]]

-----------------------------------------------------------------------------
(* Actions of the Row Store.                                               *)

CellEdit(rowId, column, value) ==
    /\ rows' = handleCellEdit(rows, rowId, column, value)
    /\ last' = [op |-> "editCell", rowId |-> rowId, column |-> column, value |-> value]
    /\ GridFollows
    /\ saved' = JSONstringify(rows')
    /\ UNCHANGED <<now, panelVars, panelVars>>

UpdateStatus(ids, status) ==
    /\ rows' = handleUpdateStatus(rows, ids, status)
    /\ last' = [op |-> "setStatus", ids |-> ids, status |-> status]
    /\ GridFollows
    /\ saved' = JSONstringify(rows')
    /\ UNCHANGED <<now, panelVars, panelVars>>

RemoveRows(ids) ==
    /\ rows' = handleRemoveRows(rows, ids)
    /\ last' = [op |-> "remove", ids |-> ids]
    /\ GridFollows
    /\ saved' = JSONstringify(rows')
    /\ UNCHANGED <<now, panelVars, panelVars>>

BatchUpdate(updates) ==
    /\ rows' = handleBatchUpdate(rows, updates)
    /\ last' = [op |-> "applyBatch", updates |-> updates]
    /\ GridFollows
    /\ saved' = JSONstringify(rows')
    /\ UNCHANGED <<now, panelVars, panelVars>>

-----------------------------------------------------------------------------
(* Spec: any stored table, then one Row Store operation on it.  Every      *)
(* operation turns a stored table into a stored table (TableIsStored), so  *)
(* the steps of Spec are the steps of every sequence of operations.        *)

StoreColumns == {ColName, ColProductCode, ColSkuSpec, ColSkuCode}

\* What an operator types into a cell, or a collaborator returns.
StoreValues == {<<>>, <<"A">>}

CheckStatuses == {"unverified", "verified"}

RowIds == 1..MaxRows

StoreRows == [id : RowIds, checkStatus : CheckStatuses, cells : [StoreColumns -> StoreValues]]

\* Tables of up to MaxRows rows over a set of rows, the ids in the order
\* of their creation.
TablesOf(rowSet) ==
    UNION {{t \in [1..n -> rowSet] : \A i \in 1..n, j \in 1..n : i < j => t[i].id < t[j].id}
           : n \in 0..MaxRows}

\* The tables localStorage can hold at start-up.
StoredTables == TablesOf(StoreRows)

\* The update lists handleRename and handleSkuOptimize hand to
\* onBatchUpdate: one update per row they matched, in row order, each
\* naming the one column the call rewrites.
BatchOf(column, newValue) ==
    LET on == DOMAIN newValue
        n  == Cardinality(on)
        nth(k) == CHOOSE id \in on : Cardinality({x \in on : x < id}) = k - 1
    IN  [k \in 1..n |-> [id |-> nth(k), changes |-> (column :> newValue[nth(k)])]]

BatchInputs ==
    {BatchOf(c, f) : c \in {ColName, ColSkuSpec},
                     f \in UNION {[on -> StoreValues] : on \in (SUBSET RowIds) \ {{}}}}

GridIdle ==
    /\ openFilterHeader = <<>>
    /\ activeFilters = <<>>
    /\ uniqueColumns = {}
    /\ tempFilterSelection = {}
    /\ shown = filteredData(rows, activeFilters, uniqueColumns)
    /\ stats = <<>>
    /\ saved = JSONstringify(rows)

\* No operation has been applied yet.
Loaded == last.op = "init"

Init ==
    /\ rows \in StoredTables
    /\ last = [op |-> "init"]
    /\ now = 0
    /\ PanelIdle
    /\ GridIdle

Next ==
    \/ \E rowId \in 0..MaxRows, column \in StoreColumns, value \in StoreValues :
          Loaded /\ CellEdit(rowId, column, value)
    \/ \E ids \in (SUBSET RowIds) \ {{}}, status \in CheckStatuses :
          Loaded /\ UpdateStatus(ids, status)
    \/ \E ids \in (SUBSET RowIds) \ {{}} : Loaded /\ RemoveRows(ids)
    \/ \E updates \in BatchInputs : Loaded /\ BatchUpdate(updates)

Spec == Init /\ [][Next]_vars

\* Every operation leaves a table Init starts from.
TableIsStored == rows \in StoredTables

-----------------------------------------------------------------------------
(* What the claims say of editCell.                                        *)

\* The identity code a column's edits fan out by.
CodeColumnOf(column) == IF isProductScope(column) THEN ColProductCode ELSE ColSkuCode

\* Row r carries the same, non-blank, code as the source row.
SharesCode(src, r, codeCol) ==
    /\ Trim(Str(src, codeCol)) # <<>>
    /\ Has(src, codeCol)
    /\ Str(r, codeCol) = Str(src, codeCol)

\* Row i of table t belongs to the propagation set of an edit of row rowId.
InPropagationSet(t, i, rowId, column) ==
    \/ t[i].id = rowId
    \/ /\ FindIndex(t, rowId) # 0
       /\ SharesCode(t[FindIndex(t, rowId)], t[i], CodeColumnOf(column))

SameShape(t, u) == Len(t) = Len(u) /\ \A i \in 1..Len(t) : t[i].id = u[i].id

\* C2: an edit of 商品名称 or SKU规格 leaves every row of the propagation
\* set with the new value and checkStatus = unverified; an edit of any other
\* column leaves the checkStatus of every row as it was.
C2_CriticalEditResetsStatus ==
    [][last'.op = "editCell" =>
         /\ SameShape(rows, rows')
         /\ \A i \in 1..Len(rows) :
               IF isCritical(last'.column)
               THEN InPropagationSet(rows, i, last'.rowId, last'.column)
                       => /\ rows'[i].checkStatus = "unverified"
                          /\ rows'[i].cells[last'.column] = last'.value
               ELSE rows'[i].checkStatus = rows[i].checkStatus]_vars

\* Two rows with the same product code, one of them verified before the
\* edit, both read the new name and are unverified after it.
C2_Witness ==
    /\ last.op = "editCell"
    /\ last.column = ColName
    /\ Len(rows) = 2
    /\ rows[1].id = last.rowId
    /\ rows[1].cells[ColProductCode] = <<"A">>
    /\ rows[2].cells[ColProductCode] = <<"A">>
    /\ rows[1].cells[ColName] = last.value
    /\ rows[2].cells[ColName] = last.value
    /\ rows[1].checkStatus = "unverified"
    /\ rows[2].checkStatus = "unverified"

\* C3: whenever an operation changes a row's 商品名称 or SKU规格, the row's
\* checkStatus is unverified right after it.
C3_NameOrSpecChangeResetsStatus ==
    [][\A i \in 1..Len(rows), j \in 1..Len(rows') :
          (/\ rows[i].id = rows'[j].id
           /\ \/ Str(rows[i], ColName) # Str(rows'[j], ColName)
              \/ Str(rows[i], ColSkuSpec) # Str(rows'[j], ColSkuSpec))
          => rows'[j].checkStatus = "unverified"]_vars

-----------------------------------------------------------------------------
(* SpecEdit: handleCellEdit on tables whose identity codes are missing,   *)
(* empty, blank, padded or plain.                                          *)

ProductCodes == {<<>>, <<" ">>, <<"A">>, <<"A", " ">>, UndefinedStr}

SkuCodes == {<<" ">>, <<"K">>, <<"K", " ">>}

\* The cells of a row that carries a product code, a sku code, both or
\* neither.
CodeCells ==
    {<<>>}
    \cup {(ColProductCode :> p) : p \in ProductCodes}
    \cup {(ColSkuCode :> k) : k \in SkuCodes}
    \cup {(ColProductCode :> p) @@ (ColSkuCode :> k) : p \in ProductCodes, k \in SkuCodes}

EditRows == [id : RowIds, checkStatus : {"unverified"}, cells : CodeCells]

EditColumns == {ColName, ColLength, ColSkuPrice, ColProductCode, ColSkuCode}

EditValues == {<<"V">>, <<"A">>}

InitEdit ==
    /\ rows \in TablesOf(EditRows)
    /\ last = [op |-> "init"]
    /\ now = 0
    /\ PanelIdle
    /\ GridIdle

NextEdit ==
    \E rowId \in 0..MaxRows, column \in EditColumns, value \in EditValues :
        Loaded /\ CellEdit(rowId, column, value)

SpecEdit == InitEdit /\ [][NextEdit]_vars

\* The code a row shows in a column: a missing cell is an empty code.
CodeOf(r, codeCol) == IF Has(r, codeCol) THEN r.cells[codeCol] ELSE <<>>

IsBlank(s) == Trim(s) = <<>>

\* The row with one cell set, as an edit of that cell leaves it.
WithCell(r, column, value) ==
    [id |-> r.id,
     checkStatus |-> IF isCritical(column) THEN "unverified" ELSE r.checkStatus,
     cells |-> [c \in DOMAIN r.cells \cup {column} |->
                   IF c = column THEN value ELSE r.cells[c]]]

\* An edit of a row that exists, seen as a step: what holds of every row
\* other than the rows with the edited id.
EditOfOthers(P(_, _, _)) ==
    (last'.op = "editCell" /\ FindIndex(rows, last'.rowId) # 0) =>
        /\ SameShape(rows, rows')
        /\ \A i \in 1..Len(rows) :
              rows[i].id # last'.rowId
                 => P(rows[FindIndex(rows, last'.rowId)], rows[i], rows'[i])

\* C1: a row that shares the source's non-empty code (product code for a
\* product-scope column, sku code for a sku-scope column) gets the new
\* value; a row whose code differs or is empty is left as it was.
C1_Row(src, r, after) ==
    LET codeCol == CodeColumnOf(last'.column)
    IN  IF ~IsBlank(CodeOf(src, codeCol)) /\ CodeOf(r, codeCol) = CodeOf(src, codeCol)
        THEN after = WithCell(r, last'.column, last'.value)
        ELSE after = r

C1_EditFansOutByScope == [][EditOfOthers(C1_Row)]_vars

\* C4: when the source's code is empty or blank, no row other than the
\* source is changed.
C4_Row(src, r, after) ==
    IsBlank(CodeOf(src, CodeColumnOf(last'.column))) => after = r

C4_BlankCodeEditsOneRow == [][EditOfOthers(C4_Row)]_vars

\* Two rows carry the same blank product code; the edit of 长 reached the
\* source only.
C4_Witness ==
    /\ last.op = "editCell"
    /\ last.column = ColLength
    /\ Len(rows) = 2
    /\ rows[1].id = last.rowId
    /\ Has(rows[1], ColProductCode) /\ rows[1].cells[ColProductCode] = <<" ">>
    /\ Has(rows[2], ColProductCode) /\ rows[2].cells[ColProductCode] = <<" ">>
    /\ Has(rows[1], ColLength) /\ rows[1].cells[ColLength] = last.value
    /\ ~Has(rows[2], ColLength)

\* C5 as claimed: a row other than the source is updated iff the source's
\* code is not blank and the two codes, as strings, are equal after
\* trimming.
C5_RowTrimmed(src, r, after) ==
    LET codeCol == CodeColumnOf(last'.column)
    IN  IF ~IsBlank(CodeOf(src, codeCol))
           /\ Trim(Str(r, codeCol)) = Trim(Str(src, codeCol))
        THEN after = WithCell(r, last'.column, last'.value)
        ELSE after = r

C5_MembershipByTrimmedCode == [][EditOfOthers(C5_RowTrimmed)]_vars

\* C5 as amended: a row other than the source is updated iff the source
\* carries a code that is not blank and the row's code, converted to a
\* string, is that very string, padding included.
C5_RowExact(src, r, after) ==
    IF SharesCode(src, r, CodeColumnOf(last'.column))
    THEN after = WithCell(r, last'.column, last'.value)
    ELSE after = r

C5_MembershipByExactCode == [][EditOfOthers(C5_RowExact)]_vars

\* The source's product code is "A", the other row's is "A " : the edit of
\* 长 reached the source and not the other row.
C5_Witness ==
    /\ last.op = "editCell"
    /\ last.column = ColLength
    /\ Len(rows) = 2
    /\ rows[1].id = last.rowId
    /\ Has(rows[1], ColProductCode) /\ rows[1].cells[ColProductCode] = <<"A">>
    /\ Has(rows[2], ColProductCode) /\ rows[2].cells[ColProductCode] = <<"A", " ">>
    /\ Has(rows[1], ColLength) /\ rows[1].cells[ColLength] = last.value
    /\ ~Has(rows[2], ColLength)

-----------------------------------------------------------------------------
(* Row creation: ids from the clock and Math.random().                     *)
(*                                                                         *)
(* Date.now() is a whole number of milliseconds and Math.random() a        *)
(* fraction in [0, 1).  Their sum is a double: near today's clock values   *)
(* a double keeps a fixed number of fraction steps per millisecond, so the *)
(* sum is one of RandomSteps numbers between two clock values.  The number *)
(* whole + k/RandomSteps is written whole * RandomSteps + k.               *)

RandomSteps == 2
MaxClock == 2

Fractions == 0..(RandomSteps - 1)

NumberOf(whole, fraction) == whole * RandomSteps + fraction

\* _internal_id: Date.now() + Math.random()
extractedRowId(random) == NumberOf(now, random)

\* _internal_id: Date.now() + i + Math.random(), i the row's index in the
\* sheet (the header is row 0)
importedRowId(i, random) == NumberOf(now + i, random)

\* The cells a created row arrives with.
NewCells == (ColName :> <<"A">>)

\* handleInitialCleaning: one new row per extracted SKU.
extractedRows(randoms) ==
    [k \in 1..Len(randoms) |->
        [id |-> extractedRowId(randoms[k]), checkStatus |-> "unverified", cells |-> NewCells]]

\* processRawGrid: one new row per data row of the sheet.
parsedRows(randoms) ==
    [k \in 1..Len(randoms) |->
        [id |-> importedRowId(k, randoms[k]), checkStatus |-> "unverified", cells |-> NewCells]]

withStatusUnverified(newRows) ==
    [k \in 1..Len(newRows) |-> [newRows[k] EXCEPT !.checkStatus = "unverified"]]

\* An add that puts the new rows in front.
handleAddRowsInFront(prevRows, newRows) == withStatusUnverified(newRows) \o prevRows

\* The rows of an import put in front of the store.
handleImportDataInFront(prevRows, newRows) ==
    withStatusUnverified(newRows) \o prevRows

handleAddRows(prevRows, newRows) == prevRows \o withStatusUnverified(newRows)

handleImportData(prevRows, newRows) ==
    IF Len(newRows) > 0 THEN prevRows \o withStatusUnverified(newRows) ELSE prevRows

AddRows(randoms) ==
    /\ rows' = handleAddRows(rows, extractedRows(randoms))
    /\ last' = [op |-> "addRows", randoms |-> randoms]
    /\ GridFollows
    /\ saved' = JSONstringify(rows')
    /\ UNCHANGED <<now, panelVars, panelVars>>

ImportData(randoms) ==
    /\ Len(randoms) > 0
    /\ activeFilters' = <<>>
    /\ uniqueColumns' = {}
    /\ rows' = handleImportData(rows, parsedRows(randoms))
    /\ shown' = filteredData(rows', activeFilters', uniqueColumns')
    /\ stats' = menuStats(rows', openFilterHeader)
    /\ saved' = JSONstringify(rows')
    /\ last' = [op |-> "importData", randoms |-> randoms]
    /\ UNCHANGED <<now, panelVars, openFilterHeader, tempFilterSelection>>

\* A reset that leaves localStorage as it is.
ResetDatabaseKeepingSnapshot ==
    /\ rows' = <<>>
    /\ last' = [op |-> "reset"]
    /\ GridFollows
    /\ UNCHANGED <<now, panelVars, saved>>

ResetDatabase ==
    /\ rows' = <<>>
    /\ last' = [op |-> "reset"]
    /\ GridFollows
    /\ saved' = JSONstringify(rows')
    /\ UNCHANGED <<now, panelVars, panelVars>>

\* A millisecond passes.
Tick ==
    /\ now < MaxClock
    /\ now' = now + 1
    /\ last' = [op |-> "tick"]
    /\ UNCHANGED <<rows, saved, gridVars, panelVars>>

\* The random draws of one extraction or one import.
RandomDraws(n) == [1..n -> Fractions]

\* SpecIds: an empty store, then any sequence of extractions, imports,
\* removals and resets while the clock runs.
InitIds ==
    /\ rows = <<>>
    /\ last = [op |-> "init"]
    /\ now = 0
    /\ PanelIdle
    /\ GridIdle

NextIds ==
    \/ \E n \in 1..MaxRows : \E randoms \in RandomDraws(n) :
          Len(rows) + n <= MaxRows /\ AddRows(randoms)
    \/ \E n \in 1..MaxRows : \E randoms \in RandomDraws(n) :
          Len(rows) + n <= MaxRows /\ ImportData(randoms)
    \/ \E ids \in (SUBSET Ids(rows)) \ {{}} : RemoveRows(ids)
    \/ ResetDatabase
    \/ Tick

SpecIds == InitIds /\ [][NextIds]_vars

\* C6: all rows of the Row Store have pairwise distinct ids.
C6_IdsPairwiseDistinct ==
    \A i \in 1..Len(rows), j \in 1..Len(rows) : i # j => rows[i].id # rows[j].id

-----------------------------------------------------------------------------
(* The filter menu (DataGrid.tsx).  No open menu is openFilterHeader =     *)
(* <<>>; activeFilters maps the filtered columns to their allow-sets.      *)

MenuOpen == openFilterHeader # <<>>

\* { ...activeFilters } with one key deleted
withoutKey(filters, header) == [c \in (DOMAIN filters) \ {header} |-> filters[c]]

\* { ...activeFilters } with one key set
withKey(filters, header, allowed) ==
    [c \in (DOMAIN filters) \cup {header} |-> IF c = header THEN allowed ELSE filters[c]]

FilterClick(header) ==
    /\ IF openFilterHeader # header
       THEN /\ tempFilterSelection' =
                  IF header \in DOMAIN activeFilters
                  THEN activeFilters[header]
                  ELSE allValuesOf(rows, header)
            /\ openFilterHeader' = header
       ELSE /\ openFilterHeader' = <<>>
            /\ UNCHANGED tempFilterSelection
    /\ last' = [op |-> "filterClick", header |-> header]
    /\ stats' = menuStats(rows, openFilterHeader')
    /\ UNCHANGED <<rows, saved, now, panelVars, activeFilters, uniqueColumns, shown>>

ToggleFilterValue(val) ==
    /\ MenuOpen
    /\ tempFilterSelection' =
          IF val \in tempFilterSelection
          THEN tempFilterSelection \ {val}
          ELSE tempFilterSelection \cup {val}
    /\ last' = [op |-> "toggleFilterValue", val |-> val]
    /\ UNCHANGED <<rows, saved, now, panelVars, openFilterHeader, activeFilters, uniqueColumns, shown, stats>>

ToggleSelectAll ==
    /\ MenuOpen
    /\ tempFilterSelection' =
          IF Cardinality(tempFilterSelection) = Cardinality(allValuesOf(rows, openFilterHeader))
          THEN {}
          ELSE allValuesOf(rows, openFilterHeader)
    /\ last' = [op |-> "toggleSelectAll"]
    /\ UNCHANGED <<rows, saved, now, panelVars, openFilterHeader, activeFilters, uniqueColumns, shown, stats>>

ApplyFilter ==
    /\ MenuOpen
    /\ activeFilters' =
          IF Cardinality(tempFilterSelection) = Cardinality(allValuesOf(rows, openFilterHeader))
          THEN withoutKey(activeFilters, openFilterHeader)
          ELSE withKey(activeFilters, openFilterHeader, tempFilterSelection)
    /\ openFilterHeader' = <<>>
    /\ shown' = filteredData(rows, activeFilters', uniqueColumns)
    /\ last' = [op |-> "applyFilter", header |-> openFilterHeader]
    /\ stats' = <<>>
    /\ UNCHANGED <<rows, saved, now, panelVars, uniqueColumns, tempFilterSelection>>

ToggleUniqueMode(header) ==
    /\ IF header \in uniqueColumns
       THEN /\ uniqueColumns' = uniqueColumns \ {header}
            /\ UNCHANGED activeFilters
       ELSE /\ uniqueColumns' = uniqueColumns \cup {header}
            /\ activeFilters' = withoutKey(activeFilters, header)
    /\ openFilterHeader' = <<>>
    /\ shown' = filteredData(rows, activeFilters', uniqueColumns')
    /\ last' = [op |-> "toggleUniqueMode", header |-> header]
    /\ stats' = <<>>
    /\ UNCHANGED <<rows, saved, now, panelVars, tempFilterSelection>>

\* The menu's cancel button, or a click outside the menu.
CloseFilterMenu ==
    /\ MenuOpen
    /\ openFilterHeader' = <<>>
    /\ last' = [op |-> "closeFilterMenu"]
    /\ stats' = <<>>
    /\ UNCHANGED <<rows, saved, now, panelVars, activeFilters, uniqueColumns, tempFilterSelection, shown>>

\* SpecGrid: a stored table under an idle grid, then any sequence of menu
\* operations and resets.
GridColumns == {ColName, ColSkuSpec}

GridValues == {<<"A">>, <<"B">>}

GridRows == [id : RowIds, checkStatus : {"unverified"}, cells : [GridColumns -> GridValues]]

GridTables == TablesOf(GridRows)

InitGrid ==
    /\ rows \in GridTables
    /\ last = [op |-> "init"]
    /\ now = 0
    /\ PanelIdle
    /\ GridIdle

\* The menu's buttons and check boxes act on the column whose menu is open.
NextGrid ==
    \/ \E header \in GridColumns : FilterClick(header)
    \/ \E val \in allValuesOf(rows, openFilterHeader) : ToggleFilterValue(val)
    \/ ToggleSelectAll
    \/ ApplyFilter
    \/ MenuOpen /\ ToggleUniqueMode(openFilterHeader)
    \/ CloseFilterMenu
    \/ ResetDatabase

SpecGrid == InitGrid /\ [][NextGrid]_vars

\* C7: no column is at once a unique column and a key of activeFilters.
C7_UniqueExcludesFilter == uniqueColumns \cap DOMAIN activeFilters = {}

-----------------------------------------------------------------------------
(* SpecView: any table under any filters and unique columns, the menu open *)
(* with any selection, then one operation of the menu or one cell edit.    *)

MaxViewRows == 3

ViewColumns == {ColName, ColSkuSpec}

\* The cells of a row: 商品名称 missing, blank, or a value with or without
\* a trailing space; SKU规格 a value.
ViewCells ==
    {(ColSkuSpec :> b) : b \in {<<"A">>, <<"B">>}}
    \cup {(ColName :> a) @@ (ColSkuSpec :> b) :
             a \in {<<" ">>, <<"A">>, <<"A", " ">>}, b \in {<<"A">>, <<"B">>}}

ViewTables ==
    UNION {{[i \in 1..n |-> [id |-> i, checkStatus |-> "unverified", cells |-> c[i]]]
              : c \in [1..n -> ViewCells]}
           : n \in 0..MaxViewRows}

ViewFilters == {<<>>, (ColSkuSpec :> {<<"A">>})}

ViewSelections == SUBSET {BlankMarker, <<"A">>, <<"B">>}

InitView ==
    /\ rows \in ViewTables
    /\ last = [op |-> "init"]
    /\ now = 0
    /\ PanelIdle
    /\ openFilterHeader \in ViewColumns
    /\ activeFilters \in ViewFilters
    /\ uniqueColumns \in SUBSET ViewColumns
    /\ tempFilterSelection \in ViewSelections
    /\ shown = filteredData(rows, activeFilters, uniqueColumns)
    /\ stats = menuStats(rows, openFilterHeader)
    /\ saved = JSONstringify(rows)

NextView ==
    \/ \E header \in ViewColumns : Loaded /\ FilterClick(header)
    \/ \E val \in allValuesOf(rows, openFilterHeader) : Loaded /\ ToggleFilterValue(val)
    \/ Loaded /\ ToggleSelectAll
    \/ Loaded /\ ApplyFilter
    \/ Loaded /\ ToggleUniqueMode(openFilterHeader)
    \/ Loaded /\ CloseFilterMenu
    \/ \E rowId \in 1..MaxViewRows, value \in {<<"B">>} :
          Loaded /\ CellEdit(rowId, ColName, value)

SpecView == InitView /\ [][NextView]_vars

\* The rows of table t at the positions of indexSet, in the order of t.
Pick(indexSet, t) ==
    [k \in 1..Cardinality(indexSet) |->
        t[CHOOSE i \in indexSet : Cardinality({j \in indexSet : j < i}) = k - 1]]

\* A cell's value as the claims canonicalise it.
CanonOf(r, col) ==
    IF col \notin DOMAIN r.cells THEN BlankMarker
    ELSE IF Trim(r.cells[col]) = <<>> THEN BlankMarker
    ELSE Trim(r.cells[col])

\* The positions of the rows every filtered column allows.
Passed ==
    {i \in 1..Len(rows) :
        \A col \in DOMAIN activeFilters : CanonOf(rows[i], col) \in activeFilters[col]}

\* C8: with no unique columns the visible rows are, in store order, the
\* rows whose canonical value is in the allow-set of every filtered column.
C8_VisibleIffAllowed == uniqueColumns = {} => shown = Pick(Passed, rows)

\* A filter on 商品名称 has just been confirmed on top of one on SKU规格 and
\* shows the first and the third of three rows.
C8_Witness ==
    /\ last.op = "applyFilter"
    /\ uniqueColumns = {}
    /\ DOMAIN activeFilters = {ColName, ColSkuSpec}
    /\ activeFilters[ColName] = {<<"A">>}
    /\ Len(rows) = 3
    /\ shown = <<rows[1], rows[3]>>

\* C9: with one unique column the visible rows are, in order, the rows
\* that passed the filters and whose canonical value in that column no
\* earlier passed row carries.
C9_SingleColumnKeepsEarliest ==
    \A u \in ViewColumns :
        uniqueColumns = {u} =>
            shown = Pick({i \in Passed :
                            \A j \in Passed :
                                j < i => CanonOf(rows[j], u) # CanonOf(rows[i], u)},
                         rows)

\* 商品名称 has just become the one unique column; of three rows that read
\* A, A and blank the first and the third are shown.
C9_Witness ==
    /\ last.op = "toggleUniqueMode"
    /\ uniqueColumns = {ColName}
    /\ Len(rows) = 3
    /\ CanonOf(rows[1], ColName) = CanonOf(rows[2], ColName)
    /\ Has(rows[1], ColName) /\ Has(rows[2], ColName)
    /\ rows[1].cells[ColName] # rows[2].cells[ColName]
    /\ CanonOf(rows[3], ColName) = BlankMarker
    /\ shown = <<rows[1], rows[3]>>

\* Row i repeats, in some unique column, the value of an earlier row of kept.
RepeatsKept(i, kept) ==
    \E col \in uniqueColumns : \E j \in kept :
        j < i /\ CanonOf(rows[j], col) = CanonOf(rows[i], col)

\* C10: with several unique columns the visible rows are the kept rows,
\* where a passed row is kept iff it repeats no earlier kept row in any
\* unique column; no two visible rows share a value in a unique column.
C10_DropsOnAnyUniqueColumn ==
    Cardinality(uniqueColumns) >= 2 =>
        /\ \E kept \in SUBSET Passed :
              /\ \A i \in Passed : i \in kept <=> ~RepeatsKept(i, kept)
              /\ shown = Pick(kept, rows)
        /\ \A a \in 1..Len(shown), b \in 1..Len(shown), col \in uniqueColumns :
              a # b => CanonOf(shown[a], col) # CanonOf(shown[b], col)

\* Both columns are unique; the second row repeats the first one's 商品名称
\* and is dropped, and the third is shown although it repeats the second
\* row's SKU规格.
C10_Witness ==
    /\ last.op = "toggleUniqueMode"
    /\ uniqueColumns = {ColName, ColSkuSpec}
    /\ Len(rows) = 3
    /\ CanonOf(rows[2], ColName) = CanonOf(rows[1], ColName)
    /\ CanonOf(rows[3], ColSkuSpec) = CanonOf(rows[2], ColSkuSpec)
    /\ shown = <<rows[1], rows[3]>>

\* C11: computing the visible rows of the visible rows, under the same
\* filters and unique columns, returns the visible rows again.
C11_VisibleRowsIdempotent == filteredData(shown, activeFilters, uniqueColumns) = shown

\* A filter has just been confirmed while a column is unique, and both
\* passes dropped a row: one of three rows is shown.
C11_Witness ==
    /\ last.op = "applyFilter"
    /\ uniqueColumns # {}
    /\ activeFilters # <<>>
    /\ Len(rows) = 3
    /\ Len(SelectSeq(rows, LAMBDA row : passesFilters(row, activeFilters))) = 2
    /\ Len(shown) = 1
    /\ filteredData(shown, activeFilters, uniqueColumns) = shown

-----------------------------------------------------------------------------
(* SpecStats: a table of 商品名称 values, then any sequence of opening and *)
(* closing the column's menu and of cell edits.                            *)

MaxStatsRows == 3

StatsValues ==
    {<<" ">>, <<"a", "b">>, <<"A", "b">>, <<"a", "c">>, <<"B">>, <<"B", " ">>}

StatsCells == {<<>>} \cup {(ColName :> v) : v \in StatsValues}

StatsTables ==
    UNION {{[i \in 1..n |-> [id |-> i, checkStatus |-> "unverified", cells |-> c[i]]]
              : c \in [1..n -> StatsCells]}
           : n \in 0..MaxStatsRows}

InitStats ==
    /\ rows \in StatsTables
    /\ last = [op |-> "init"]
    /\ now = 0
    /\ PanelIdle
    /\ GridIdle

NextStats ==
    \/ FilterClick(ColName)
    \/ CloseFilterMenu
    \/ \E rowId \in 1..MaxStatsRows, value \in StatsValues : CellEdit(rowId, ColName, value)

SpecStats == InitStats /\ [][NextStats]_vars

\* The positions of the rows whose canonical value in the open column is val.
RowsWith(val) == {k \in 1..Len(rows) : CanonOf(rows[k], openFilterHeader) = val}

RECURSIVE SumOfCounts(_)
SumOfCounts(entries) ==
    IF entries = <<>> THEN 0 ELSE Head(entries)[2] + SumOfCounts(Tail(entries))

\* C12: the stats of the open column have one entry per distinct canonical
\* value, each with the number of rows of that value, and the counts add up
\* to the number of rows.
C12_StatsCountEveryRowOnce ==
    MenuOpen =>
        /\ \A i \in 1..Len(stats), j \in 1..Len(stats) : i # j => stats[i][1] # stats[j][1]
        /\ {stats[i][1] : i \in 1..Len(stats)}
              = {CanonOf(rows[k], openFilterHeader) : k \in 1..Len(rows)}
        /\ \A i \in 1..Len(stats) : stats[i][2] = Cardinality(RowsWith(stats[i][1]))
        /\ SumOfCounts(stats) = Len(rows)

\* The menu has just been opened on three rows, two of them blank in
\* different ways (no cell, a cell of spaces).
C12_Witness ==
    /\ last.op = "filterClick"
    /\ MenuOpen
    /\ Len(rows) = 3
    /\ \E i \in 1..3, j \in 1..3 :
          /\ ~Has(rows[i], ColName)
          /\ Has(rows[j], ColName)
          /\ CanonOf(rows[j], ColName) = BlankMarker
    /\ stats[1] = <<BlankMarker, 2>>
    /\ Len(stats) = 2

\* The letters of StatsValues.
Letters == {"a", "A", "b", "c", "B"}

\* Entry i and the later entry j of the stats are in descending count.
CountsDescend(i, j) == stats[i][2] >= stats[j][2]

\* C13 as claimed: the stats are in descending count, and for some order of
\* the letters the entries of equal count are in lexicographic order, the
\* blank marker after the others.
C13_TiesLexicographic ==
    MenuOpen =>
        \E rank \in {r \in [Letters -> 1..Cardinality(Letters)] :
                        \A c \in Letters, d \in Letters : c # d => r[c] # r[d]} :
            \A i \in 1..Len(stats), j \in 1..Len(stats) :
                i < j =>
                    /\ CountsDescend(i, j)
                    /\ stats[i][2] = stats[j][2] =>
                          \/ stats[j][1] = BlankMarker
                          \/ /\ stats[i][1] # BlankMarker
                             /\ lexCompare([k \in 1..Len(stats[i][1]) |-> rank[stats[i][1][k]]],
                                           [k \in 1..Len(stats[j][1]) |-> rank[stats[j][1][k]]]) < 0

\* C13 as amended: the stats are in descending count, and entries of equal
\* count are in the order of localeCompare, the blank marker after the
\* others.
C13_TiesInCollationOrder ==
    MenuOpen =>
        \A i \in 1..Len(stats), j \in 1..Len(stats) :
            i < j =>
                /\ CountsDescend(i, j)
                /\ stats[i][2] = stats[j][2] =>
                      \/ stats[j][1] = BlankMarker
                      \/ /\ stats[i][1] # BlankMarker
                         /\ localeCompare(stats[i][1], stats[j][1]) < 0

\* The menu lists three values of one row each, the blank marker last
\* although its row comes first in the table.
C13_Witness ==
    /\ MenuOpen
    /\ Len(rows) = 3
    /\ CanonOf(rows[1], ColName) = BlankMarker
    /\ Len(stats) = 3
    /\ stats[1] = << <<"a", "b">>, 1 >>
    /\ stats[2] = << <<"A", "b">>, 1 >>
    /\ stats[3] = <<BlankMarker, 1>>

-----------------------------------------------------------------------------
(* SpecStore: any stored table, then one Row Store operation on any input, *)
(* then a reload of the page.                                              *)

\* The checkStatus of a row object that carries none.
NoStatus == "undefined"

\* handleAddRows on the rows a caller hands over.
HandleAddRows(newRows) ==
    /\ rows' = handleAddRows(rows, newRows)
    /\ last' = [op |-> "add", newRows |-> newRows]
    /\ GridFollows
    /\ saved' = JSONstringify(rows')
    /\ UNCHANGED <<now, panelVars, panelVars>>

\* handleImportData on the rows the grid parsed: with no rows, no state is
\* set.
HandleImportData(newRows) ==
    /\ rows' = handleImportData(rows, newRows)
    /\ last' = [op |-> "import", newRows |-> newRows]
    /\ IF Len(newRows) > 0
       THEN GridFollows /\ saved' = JSONstringify(rows')
       ELSE UNCHANGED <<saved, gridVars>>
    /\ UNCHANGED <<now, panelVars, panelVars>>

\* The page is loaded again: project.rows is read from localStorage, the
\* grid starts idle, the persistence effect runs on mount.
Reload ==
    /\ rows' = JSONparse(saved)
    /\ last' = [op |-> "reload", after |-> last.op]
    /\ openFilterHeader' = <<>>
    /\ activeFilters' = <<>>
    /\ uniqueColumns' = {}
    /\ tempFilterSelection' = {}
    /\ shown' = filteredData(rows', activeFilters', uniqueColumns')
    /\ stats' = <<>>
    /\ saved' = JSONstringify(rows')
    /\ UNCHANGED <<now, panelVars, panelVars>>

SmallColumns == {ColName, ColSkuSpec}

SmallRows == [id : RowIds, checkStatus : CheckStatuses, cells : [SmallColumns -> StoreValues]]

SmallTables == TablesOf(SmallRows)

\* The rows handed to add and import: ids no stored row has, any status or
\* none.
NewRowIds == {MaxRows + k : k \in 1..MaxRows}

NewRows == [id : NewRowIds, checkStatus : CheckStatuses \cup {NoStatus}, cells : {NewCells}]

NewRowLists ==
    UNION {{t \in [1..n -> NewRows] : \A i \in 1..n, j \in 1..n : i < j => t[i].id < t[j].id}
           : n \in 0..MaxRows}

\* The update lists handed to applyBatch: up to MaxRows updates, the ids
\* free to repeat and to match no row.
Changes == {(c :> <<"B">>) : c \in SmallColumns}

UpdateLists == UNION {[1..n -> [id : 0..MaxRows, changes : Changes]] : n \in 1..MaxRows}

InitStore ==
    /\ rows \in SmallTables
    /\ last = [op |-> "init"]
    /\ now = 0
    /\ PanelIdle
    /\ GridIdle

NextStore ==
    \/ \E newRows \in NewRowLists \ {<<>>} : Loaded /\ HandleAddRows(newRows)
    \/ \E newRows \in NewRowLists : Loaded /\ HandleImportData(newRows)
    \/ \E ids \in (SUBSET RowIds) \ {{}} : Loaded /\ RemoveRows(ids)
    \/ \E ids \in (SUBSET RowIds) \ {{}}, status \in CheckStatuses :
          Loaded /\ UpdateStatus(ids, status)
    \/ \E updates \in UpdateLists : Loaded /\ BatchUpdate(updates)
    \/ \E rowId \in 0..MaxRows, column \in SmallColumns, value \in StoreValues :
          Loaded /\ CellEdit(rowId, column, value)
    \/ Loaded /\ ResetDatabase
    \/ ~Loaded /\ last.op # "reload" /\ Reload

SpecStore == InitStore /\ [][NextStore]_vars

\* C14 as claimed: add and import append the given rows in their order
\* behind the unchanged existing rows, a new row without checkStatus
\* becoming unverified and a new row with one keeping it.
C14_AddStampsUnlessSet ==
    [][last'.op \in {"add", "import"} =>
          rows' = rows \o [k \in 1..Len(last'.newRows) |->
                              IF last'.newRows[k].checkStatus = NoStatus
                              THEN [last'.newRows[k] EXCEPT !.checkStatus = "unverified"]
                              ELSE last'.newRows[k]]]_vars

\* C14 as amended: add and import append the given rows in their order
\* behind the unchanged existing rows, every new row unverified.
C14_AddStampsAlways ==
    [][last'.op \in {"add", "import"} =>
          rows' = rows \o [k \in 1..Len(last'.newRows) |->
                              [last'.newRows[k] EXCEPT !.checkStatus = "unverified"]]]_vars

\* Two rows, the first handed over as verified, have been added behind an
\* existing row.
C14_Witness ==
    /\ last.op = "add"
    /\ Len(last.newRows) = 2
    /\ last.newRows[1].checkStatus = "verified"
    /\ Len(rows) = 3
    /\ rows[1].id \in RowIds
    /\ rows[2] = [last.newRows[1] EXCEPT !.checkStatus = "unverified"]
    /\ rows[3].id = last.newRows[2].id

\* The updates of the list that carry the id of row r.
UpdatesFor(updates, r) == {k \in 1..Len(updates) : updates[k].id = r.id}

\* The value the change sets for row r give to column col: that of the
\* last one naming it.
GivenValue(updates, r, col) ==
    LET naming == {k \in UpdatesFor(updates, r) : col \in DOMAIN updates[k].changes}
    IN  updates[CHOOSE k \in naming : \A j \in naming : j <= k].changes[col]

\* C15: applyBatch keeps row count, order and statuses; in each row every
\* column named by a change set carrying the row's id holds the value given
\* for it and every other column is untouched (so rows named by no update
\* are unchanged and updates matching no row have no effect).
C15_BatchMergesEveryChangeSet ==
    [][last'.op = "applyBatch" =>
          /\ SameShape(rows, rows')
          /\ \A i \in 1..Len(rows) :
                LET named == UNION {DOMAIN last'.updates[k].changes
                                       : k \in UpdatesFor(last'.updates, rows[i])}
                IN  /\ rows'[i].checkStatus = rows[i].checkStatus
                    /\ DOMAIN rows'[i].cells = (DOMAIN rows[i].cells) \cup named
                    /\ \A col \in named :
                          rows'[i].cells[col] = GivenValue(last'.updates, rows[i], col)
                    /\ \A col \in (DOMAIN rows[i].cells) \ named :
                          rows'[i].cells[col] = rows[i].cells[col]]_vars

\* C16: editCell with the id of no row, and remove and setStatus with ids
\* of no row, leave the row list as it was.
C16_AbsentIdsIgnored ==
    [][(\/ last'.op = "editCell" /\ last'.rowId \notin Ids(rows)
        \/ last'.op \in {"remove", "setStatus"} /\ last'.ids \cap Ids(rows) = {})
          => rows' = rows]_vars

\* setStatus has been applied with the id of no row and a status the one
\* stored row does not have; the row still has its own.
C16_Witness ==
    /\ last.op = "setStatus"
    /\ last.ids \cap Ids(rows) = {}
    /\ Len(rows) = 1
    /\ rows[1].checkStatus # last.status

\* C17: the persisted snapshot is the current row list; after reset both
\* are empty, and a reload after reset starts from an empty store.
C17_SnapshotIsRowList ==
    /\ JSONparse(saved) = rows
    /\ last.op = "reset" => rows = <<>> /\ saved = <<>>
    /\ (last.op = "reload" /\ last.after = "reset") => rows = <<>>

\* The page has been loaded again after an add, and the store holds the
\* rows that were there and the rows that were added.
C17_Witness ==
    /\ last.op = "reload"
    /\ last.after = "add"
    /\ Len(rows) >= 2
    /\ rows[1].id \in RowIds
    /\ rows[Len(rows)].id \in NewRowIds
    /\ JSONparse(saved) = rows

-----------------------------------------------------------------------------
(* File import: processRawGrid (DataGrid.tsx).  A grid is the list of rows *)
(* sheet_to_json returns, a row the list of its cells, a cell a string     *)
(* ('' for an empty cell).  Rows and cells are counted from 0 as in the    *)
(* code: row i of the grid is grid[i + 1].                                 *)

HeaderWindow == 10

requiredKeys == {ColName, ColPrice}

\* rows[i].map(cell => String(cell || "").trim())
trimmedCells(rowArr) == [j \in 1..Len(rowArr) |-> Trim(rowArr[j])]

\* matchCount === requiredKeys.length
isHeaderRow(rowArr) ==
    \A key \in requiredKeys : \E j \in 1..Len(rowArr) : trimmedCells(rowArr)[j] = key

scanLimit(grid) == IF Len(grid) < HeaderWindow THEN Len(grid) ELSE HeaderWindow

\* The header scan going on to the last row of the window that matches.
RECURSIVE findLastHeader(_, _)
findLastHeader(grid, i) ==
    IF i >= scanLimit(grid) THEN -1
    ELSE LET later == findLastHeader(grid, i + 1)
         IN  IF later # -1 THEN later
             ELSE IF isHeaderRow(grid[i + 1]) THEN i
             ELSE -1

\* The header scan from row i on: the first row of the window that matches,
\* -1 when none does.
RECURSIVE findHeader(_, _)
findHeader(grid, i) ==
    IF i >= scanLimit(grid) THEN -1
    ELSE IF isHeaderRow(grid[i + 1]) THEN i
    ELSE findHeader(grid, i + 1)

headerRowIndex(grid) == IF findHeader(grid, 0) = -1 THEN 0 ELSE findHeader(grid, 0)

rawHeaders(grid) == trimmedCells(grid[headerRowIndex(grid) + 1])

\* The cell positions (from 1) of the headers that name a column.
validHeaderIndices(headers) ==
    {j \in 1..Len(headers) : headers[j] # <<>> /\ headers[j] # ColStatus}

\* A row taken for blank when its first cell is empty.
isBlankRowByFirstCell(rowArr) == rowArr = <<>> \/ rowArr[1] = <<>>

\* rowArr.every(c => c === "" || c === null || c === undefined)
isBlankRow(rowArr) == \A j \in 1..Len(rowArr) : rowArr[j] = <<>>

\* rowObj after validHeaderIndices.forEach: each header's key holds the
\* cell at the header's position, a later header of the same name writing
\* over an earlier one; a cell the row is too short for leaves undefined.
rowObject(rowArr, headers, id) ==
    LET valid == validHeaderIndices(headers)
        names == {headers[j] : j \in valid}
        at(h) == CHOOSE j \in valid : headers[j] = h /\ \A m \in valid : headers[m] = h => m <= j
    IN  [h \in {n \in names : at(n) <= Len(rowArr)} |-> rowArr[at(h)]]
        @@ (KeyId :> id) @@ (KeyStatus :> "unverified")

\* The draw of the k-th parsed row.
drawOf(randoms, k) == randoms[((k - 1) % Len(randoms)) + 1]

\* The loop over the rows behind the header, from row i on, parsed holding
\* the rows built so far.
RECURSIVE parseFrom(_, _, _, _, _)
parseFrom(grid, i, headers, randoms, parsed) ==
    IF i >= Len(grid)
    THEN parsed
    ELSE IF isBlankRow(grid[i + 1])
    THEN parseFrom(grid, i + 1, headers, randoms, parsed)
    ELSE parseFrom(grid, i + 1, headers, randoms,
                   Append(parsed,
                          fromObject(rowObject(grid[i + 1], headers,
                                               importedRowId(i, drawOf(randoms, Len(parsed) + 1))))))

parsedGridRows(grid, randoms) ==
    IF Len(grid) = 0
    THEN <<>>
    ELSE parseFrom(grid, headerRowIndex(grid) + 1, rawHeaders(grid), randoms, <<>>)

\* processRawGrid: nothing on an empty grid; an alert and nothing else when
\* no data row was parsed; else filters and unique columns are cleared and
\* the parsed rows handed to handleImportData.
ImportFile(grid, randoms) ==
    LET parsed == parsedGridRows(grid, randoms)
    IN  /\ last' = [op |-> "importFile", grid |-> grid,
                    headerRowIndex |-> IF Len(grid) = 0 THEN 0 ELSE headerRowIndex(grid),
                    parsed |-> parsed,
                    alerted |-> (Len(grid) > 0 /\ Len(parsed) = 0)]
        /\ IF Len(parsed) > 0
           THEN /\ activeFilters' = <<>>
                /\ uniqueColumns' = {}
                /\ rows' = handleImportData(rows, parsed)
                /\ shown' = filteredData(rows', activeFilters', uniqueColumns')
                /\ stats' = menuStats(rows', openFilterHeader)
                /\ saved' = JSONstringify(rows')
                /\ UNCHANGED <<openFilterHeader, tempFilterSelection>>
           ELSE UNCHANGED <<rows, saved, gridVars>>
        /\ UNCHANGED <<now, panelVars, panelVars>>

-----------------------------------------------------------------------------
(* SpecImport: a store and a grid state, then the import of one file.      *)

MaxFill == 11
MaxTail == 4

\* The kinds of row the grids are made of.
HeaderExact == <<ColName, ColPrice, ColSkuSpec>>
HeaderPadded == <<ColStatus, <<" ">> \o ColName, <<>>, ColPrice \o <<" ">>>>
DataFull == << <<>>, <<"A">>, <<"B">>, <<"1">> >>
DataShort == << <<"A">> >>
BlankRow == << <<>>, <<>> >>
PartialHeader == <<ColName>>

TailRows == {HeaderExact, HeaderPadded, DataFull, DataShort, BlankRow}

FillRows == {PartialHeader}

\* Up to MaxFill rows of one filler kind, then up to MaxTail rows of any kind.
Grids ==
    {[i \in 1..k |-> fill] \o tail :
        k \in 0..MaxFill, fill \in FillRows,
        tail \in UNION {[1..n -> TailRows] : n \in 0..MaxTail}}

\* An empty store under an idle grid, or a store of one row hidden by a
\* filter on 商品名称 with SKU规格 unique.
InitImport ==
    /\ last = [op |-> "init"]
    /\ now = 0
    /\ PanelIdle
    /\ openFilterHeader = <<>>
    /\ tempFilterSelection = {}
    /\ \/ /\ rows = <<>>
          /\ activeFilters = <<>>
          /\ uniqueColumns = {}
       \/ /\ rows = <<[id |-> 1, checkStatus |-> "verified", cells |-> (ColName :> <<"A">>)]>>
          /\ activeFilters = (ColName :> {<<"B">>})
          /\ uniqueColumns = {ColSkuSpec}
    /\ shown = filteredData(rows, activeFilters, uniqueColumns)
    /\ stats = <<>>
    /\ saved = JSONstringify(rows)

NextImport ==
    \E grid \in Grids, randoms \in RandomDraws(1) : Loaded /\ ImportFile(grid, randoms)

SpecImport == InitImport /\ [][NextImport]_vars

\* The rows (from 0) of the scan window of the imported grid in which both
\* required markers are cells, as they stand.
ExactHeaderRows ==
    {i \in 0..(scanLimit(last.grid) - 1) :
        \A key \in requiredKeys : \E j \in 1..Len(last.grid[i + 1]) : last.grid[i + 1][j] = key}

\* The same with the cells trimmed.
TrimmedHeaderRows ==
    {i \in 0..(scanLimit(last.grid) - 1) :
        \A key \in requiredKeys :
            \E j \in 1..Len(last.grid[i + 1]) : Trim(last.grid[i + 1][j]) = key}

Lowest(S) == CHOOSE i \in S : \A j \in S : i <= j

\* C18 as claimed: the header row is the lowest row among the first 10 in
\* which both markers are exact cell matches, row 0 when there is none.
C18_HeaderIsFirstExactMatch ==
    (last.op = "importFile" /\ Len(last.grid) > 0) =>
        last.headerRowIndex = IF ExactHeaderRows = {} THEN 0 ELSE Lowest(ExactHeaderRows)

\* C18 as amended: the header row is the lowest row among the first 10 in
\* which both markers are cells once the cells are trimmed, row 0 when
\* there is none.
C18_HeaderIsFirstTrimmedMatch ==
    (last.op = "importFile" /\ Len(last.grid) > 0) =>
        last.headerRowIndex = IF TrimmedHeaderRows = {} THEN 0 ELSE Lowest(TrimmedHeaderRows)

\* Rows 0 to 2 carry one marker only, row 3 is the first of two rows with
\* both: row 3 is the header and the import has parsed a row.
C18_Witness ==
    /\ last.op = "importFile"
    /\ Len(last.grid) >= 5
    /\ \A i \in 1..3 : last.grid[i] = PartialHeader
    /\ last.grid[4] = HeaderExact
    /\ last.grid[5] = HeaderPadded
    /\ last.headerRowIndex = 3
    /\ Len(last.parsed) >= 1

\* The rows (from 0) behind the header with a cell that is not empty.
DataRowsOf(grid, h) ==
    {i \in (h + 1)..(Len(grid) - 1) : \E j \in 1..Len(grid[i + 1]) : grid[i + 1][j] # <<>>}

\* The cell positions of the trimmed header row that name a column.
NamedPositions(grid, h) ==
    {j \in 1..Len(grid[h + 1]) :
        Trim(grid[h + 1][j]) # <<>> /\ Trim(grid[h + 1][j]) # ColStatus}

\* Row r is the row parsed from row i of the grid under header row h.
ParsedFrom(r, grid, h, i) ==
    /\ r.checkStatus = "unverified"
    /\ DOMAIN r.cells \subseteq {Trim(grid[h + 1][j]) : j \in NamedPositions(grid, h)}
    /\ \A j \in NamedPositions(grid, h) :
          IF j <= Len(grid[i + 1])
          THEN /\ Trim(grid[h + 1][j]) \in DOMAIN r.cells
               /\ r.cells[Trim(grid[h + 1][j])] = grid[i + 1][j]
          ELSE Trim(grid[h + 1][j]) \notin DOMAIN r.cells

C20_ImportCommitsIffData ==
    [][last'.op = "importFile" =>
          IF Len(last'.parsed) > 0
          THEN /\ rows' = rows \o last'.parsed
               /\ activeFilters' = <<>>
               /\ uniqueColumns' = {}
               /\ shown' = rows'
               /\ ~last'.alerted
          ELSE /\ last'.alerted
               /\ UNCHANGED <<rows, activeFilters, uniqueColumns>>]_vars

-----------------------------------------------------------------------------
(* What the claims say of an import whose grid has no header or no data.   *)

\* No row of the grid's scan window holds both required markers.
HeaderNotFound(grid) ==
    \A i \in 1..scanLimit(grid) :
        \E key \in requiredKeys : \A j \in 1..Len(grid[i]) : Trim(grid[i][j]) # key

\* C21 as claimed: an import of a grid without a header row in its scan
\* window, or without a usable data row, adds no row to the store.
C21_ShapeFailureLeavesStore ==
    [][(/\ last'.op = "importFile"
        /\ Len(last'.grid) > 0
        /\ (HeaderNotFound(last'.grid) \/ Len(last'.parsed) = 0))
          => rows' = rows]_vars

\* C21 as amended: an import without a usable data row leaves the store as
\* it was; an import of a grid without a header row in its scan window
\* takes row 0 for the header and appends every row parsed behind it.
C21_NoDataLeavesStore ==
    [][(last'.op = "importFile" /\ Len(last'.grid) > 0) =>
          /\ Len(last'.parsed) = 0 => rows' = rows
          /\ HeaderNotFound(last'.grid) =>
                /\ last'.headerRowIndex = 0
                /\ rows' = rows \o last'.parsed]_vars

\* A grid of two rows, neither with both markers: row 0 was taken for the
\* header and the row behind it came to stand behind the row of the store.
C21_Witness ==
    /\ last.op = "importFile"
    /\ last.grid = <<PartialHeader, DataShort>>
    /\ HeaderNotFound(last.grid)
    /\ Len(last.parsed) = 1
    /\ Len(rows) = 2
    /\ rows[1].id = 1
    /\ rows[2] = last.parsed[1]

-----------------------------------------------------------------------------
(* What the claims say of the rows an edit leaves alone.                   *)

\* Row i of table t shares the source's code, a code that is not blank; a
\* missing cell is an empty code.
InCodeGroup(t, i, rowId, column) ==
    \/ t[i].id = rowId
    \/ /\ FindIndex(t, rowId) # 0
       /\ ~IsBlank(CodeOf(t[FindIndex(t, rowId)], CodeColumnOf(column)))
       /\ CodeOf(t[i], CodeColumnOf(column)) = CodeOf(t[FindIndex(t, rowId)], CodeColumnOf(column))

\* Row after is row r but for the cell of one column, and for checkStatus
\* when the column is 商品名称 or SKU规格.
OnlyColumnChanged(r, after, column) ==
    /\ after.id = r.id
    /\ DOMAIN after.cells \subseteq DOMAIN r.cells \cup {column}
    /\ \A c \in DOMAIN r.cells \ {column} :
          c \in DOMAIN after.cells /\ after.cells[c] = r.cells[c]
    /\ isCritical(column) \/ after.checkStatus = r.checkStatus

\* C27: an edit of a cell keeps the number, the order and the ids of the
\* rows; a row outside the propagation set is left as it was, a row inside
\* differs in the edited column only (and in checkStatus when the column is
\* 商品名称 or SKU规格); the list persisted is the list after the edit.
C27_EditChangesOnlyItsColumn ==
    [][last'.op = "editCell" =>
          /\ SameShape(rows, rows')
          /\ \A i \in 1..Len(rows) :
                IF InCodeGroup(rows, i, last'.rowId, last'.column)
                THEN OnlyColumnChanged(rows[i], rows'[i], last'.column)
                ELSE rows'[i] = rows[i]
          /\ saved' = JSONstringify(rows')]_vars

-----------------------------------------------------------------------------
(* What the claims say of the rows of one product.                         *)

\* Every two rows of table t with the same product code, a code that is not
\* blank, show the same value in every product-scope column; a missing cell
\* shows the empty value.
ProductsAgree(t) ==
    \A i \in 1..Len(t), j \in 1..Len(t) :
        (/\ ~IsBlank(CodeOf(t[i], ColProductCode))
         /\ CodeOf(t[i], ColProductCode) = CodeOf(t[j], ColProductCode))
            => \A c \in DOMAIN t[i].cells \cup DOMAIN t[j].cells :
                  isProductScope(c) => CodeOf(t[i], c) = CodeOf(t[j], c)

\* C29: when the rows of every product agree on the product-scope columns
\* before an edit of a cell, they agree after it, whichever column was
\* edited.
C29_EditKeepsProductsAgreeing ==
    [][(last'.op = "editCell" /\ ProductsAgree(rows)) => ProductsAgree(rows')]_vars

-----------------------------------------------------------------------------
(* SpecMenu: a stored table under an idle grid, then any sequence of menu  *)
(* operations, inline edits of visible rows and removals of visible rows.  *)

NextMenu ==
    \/ \E header \in GridColumns : FilterClick(header)
    \/ \E val \in allValuesOf(rows, openFilterHeader) : ToggleFilterValue(val)
    \/ ApplyFilter
    \/ CloseFilterMenu
    \/ \E k \in 1..Len(shown), column \in GridColumns, value \in GridValues :
          ~MenuOpen /\ CellEdit(shown[k].id, column, value)
    \/ \E k \in 1..Len(shown) : ~MenuOpen /\ RemoveRows({shown[k].id})

SpecMenu == InitGrid /\ [][NextMenu]_vars

\* C28: a menu that was opened and is confirmed with no value toggled in
\* between leaves the filters as they were.
C28_ConfirmUntouchedKeepsFilters ==
    [][(last.op = "filterClick" /\ MenuOpen /\ last'.op = "applyFilter")
          => activeFilters' = activeFilters]_vars

-----------------------------------------------------------------------------
(* The merge of an extraction result (CleaningPanel,                       *)
(* handleInitialCleaning).  A record of the result carries productName,    *)
(* specs and skuCode; the other fields of a record go into cells that no   *)
(* code reads back and are left out.                                       *)

\* "未命名商品"
Unnamed == <<"U672A", "U547D", "U540D", "U5546", "U54C1">>

\* The characters of [一-龥] that the codes are written with: 红.
ChineseChars == {"U7EA2"}

\* aiCode.replace(/[一-龥]/g, '').trim()
cleanedCode(code) == Trim(SelectSeq(code, LAMBDA ch : ch \notin ChineseChars))

DigitChars == <<"0", "1", "2", "3", "4", "5", "6", "7", "8", "9">>

\* String(n)
RECURSIVE NumStr(_)
NumStr(n) ==
    IF n < 10 THEN <<DigitChars[n + 1]>>
    ELSE NumStr(n \div 10) \o <<DigitChars[(n % 10) + 1]>>

\* s.padStart(width, '0')
RECURSIVE padStart(_, _)
padStart(s, width) == IF Len(s) >= width THEN s ELSE padStart(<<"0">> \o s, width)

\* The 14 digits of the clock's reading, year to second.
timestampId(clock) == padStart(NumStr(clock), 14)

\* p.productName || "未命名商品"
groupName(p) == IF p.productName = <<>> THEN Unnamed ELSE p.productName

\* The first record of the group of record k.
firstOfGroup(data, k) ==
    CHOOSE j \in 1..k :
        /\ groupName(data[j]) = groupName(data[k])
        /\ \A m \in 1..(j - 1) : groupName(data[m]) # groupName(data[k])

\* productCounter when the group of record k is visited: the groups are
\* visited in the order of their first records.
productCounter(data, k) ==
    Cardinality({firstOfGroup(data, j) : j \in 1..Len(data)} \cap 1..firstOfGroup(data, k))

\* index of record k in group.forEach
indexInGroup(data, k) ==
    Cardinality({j \in 1..(k - 1) : groupName(data[j]) = groupName(data[k])})

\* group.length > 1
isMultiSKU(data, k) ==
    \E j \in 1..Len(data) : j # k /\ groupName(data[j]) = groupName(data[k])

\* The product code made of the group's counter alone, whatever code the
\* collaborator gave.
masterProductCodeGenerated(data, k, clock) ==
    timestampId(clock) \o padStart(NumStr(productCounter(data, k)), 3)

masterProductCode(data, k, clock) ==
    LET cleanedAiCode == cleanedCode(data[firstOfGroup(data, k)].skuCode)
    IN  IF Len(cleanedAiCode) > 2
        THEN cleanedAiCode
        ELSE timestampId(clock) \o padStart(NumStr(productCounter(data, k)), 3)

finalSkuCode(data, k, clock) ==
    LET cleanedSkuCode == cleanedCode(data[k].skuCode)
    IN  IF Len(cleanedSkuCode) > 2
        THEN cleanedSkuCode
        ELSE masterProductCode(data, k, clock) \o padStart(NumStr(indexInGroup(data, k) + 1), 2)

\* `${name}-${specs}`
uniqueKey(name, specs) == name \o <<"-">> \o specs

\* new Set(currentRows.map(r => `${r['商品名称']}-${r['SKU规格']}`))
existingKeys(currentRows) ==
    {uniqueKey(Str(currentRows[i], ColName), Str(currentRows[i], ColSkuSpec)) :
        i \in 1..Len(currentRows)}

\* Object.values(productGroups).forEach(group => group.forEach(...)): the
\* records group by group, the groups in the order of their first records.
visitOrder(data) ==
    LET before(m, k) ==
            \/ firstOfGroup(data, m) < firstOfGroup(data, k)
            \/ firstOfGroup(data, m) = firstOfGroup(data, k) /\ m < k
    IN  [i \in 1..Len(data) |->
            CHOOSE k \in 1..Len(data) :
                Cardinality({m \in 1..Len(data) : before(m, k)}) = i - 1]

\* The loop from the i-th visited record on: keys holds existingKeys, acc
\* the records taken so far.
RECURSIVE acceptedFrom(_, _, _, _, _)
acceptedFrom(data, ord, i, keys, acc) ==
    IF i > Len(ord) THEN acc
    ELSE LET k == ord[i]
             key == uniqueKey(data[k].productName, data[k].specs)
         IN  IF key \in keys
             THEN acceptedFrom(data, ord, i + 1, keys, acc)
             ELSE acceptedFrom(data, ord, i + 1, keys \cup {key}, Append(acc, k))

\* The records that are not skipped as duplicates, in the order visited.
acceptedRecords(currentRows, data) ==
    acceptedFrom(data, visitOrder(data), 1, existingKeys(currentRows), <<>>)

\* newRows.push({...})
cleanedRow(data, k, clock, random) ==
    [id |-> NumberOf(clock, random),
     checkStatus |-> "unverified",
     cells |-> (ColName :> data[k].productName)
               @@ (ColProductCode :> masterProductCode(data, k, clock))
               @@ (ColSkuSpec :> IF isMultiSKU(data, k) THEN data[k].specs ELSE <<>>)
               @@ (ColSkuCode :> IF isMultiSKU(data, k)
                                 THEN finalSkuCode(data, k, clock) ELSE <<>>)]

cleanedRows(currentRows, data, clock, randoms) ==
    LET acc == acceptedRecords(currentRows, data)
    IN  [i \in 1..Len(acc) |-> cleanedRow(data, acc[i], clock, drawOf(randoms, i))]

\* handleInitialCleaning from the collaborator's answer on, currentRows the
\* rows the handler was called with: nothing on an empty answer, else the
\* new rows go to handleAddRows.  The call has taken time.
InitialCleaning(parsedData, randoms) ==
    /\ now < MaxClock
    /\ now' = now + 1
    /\ last' = [op |-> "extract", parsedData |-> parsedData,
                accepted |-> acceptedRecords(rows, parsedData)]
    /\ IF Len(parsedData) = 0
       THEN UNCHANGED <<rows, saved, gridVars>>
       ELSE /\ rows' = handleAddRows(rows, cleanedRows(rows, parsedData, now', randoms))
            /\ GridFollows
            /\ saved' = JSONstringify(rows')
    /\ UNCHANGED panelVars

-----------------------------------------------------------------------------
(* SpecMerge: an empty store, then extraction merges one after another.    *)

MaxBatch == 2

MergeNames == {<<"A">>, <<"B">>}

MergeSpecs == {<<>>, <<"X">>}

\* No code, a code of two characters, a code of three, and a code of three
\* behind a Chinese character.
MergeCodes == {<<>>, <<"K", "K">>, <<"K", "K", "K">>, <<"U7EA2", "K", "K", "K">>}

ParsedProducts == [productName : MergeNames, specs : MergeSpecs, skuCode : MergeCodes]

ParsedData == UNION {[1..n -> ParsedProducts] : n \in 0..MaxBatch}

\* The draws of Math.random() of one merge.
MergeDraws == {[k \in 1..MaxBatch |-> (k - 1) % RandomSteps]}

InitMerge ==
    /\ rows = <<>>
    /\ last = [op |-> "init"]
    /\ now = 0
    /\ PanelIdle
    /\ GridIdle

NextMerge ==
    \E parsedData \in ParsedData, randoms \in MergeDraws : InitialCleaning(parsedData, randoms)

SpecMerge == InitMerge /\ [][NextMerge]_vars

-----------------------------------------------------------------------------
(* What the claims say of the rows an extraction merge creates.            *)

\* Row r holds the product name and the specs of record p.
HoldsPair(r, p) ==
    CodeOf(r, ColName) = p.productName /\ CodeOf(r, ColSkuSpec) = p.specs

\* C22: a record is skipped iff a row of the store, or a record of the
\* batch taken before it, holds its very pair of product name and specs;
\* every record taken makes one row; a second merge of the same result
\* adds no row.
C22_SkippedIffSamePair ==
    [][last'.op = "extract" =>
          LET data == last'.parsedData
              taken == {last'.accepted[i] : i \in DOMAIN last'.accepted}
          IN  /\ \A k \in 1..Len(data) :
                    k \notin taken <=>
                       \/ \E i \in 1..Len(rows) : HoldsPair(rows[i], data[k])
                       \/ \E j \in taken :
                             /\ j < k
                             /\ data[j].productName = data[k].productName
                             /\ data[j].specs = data[k].specs
              /\ Len(rows') = Len(rows) + Cardinality(taken)
              /\ (last.op = "extract" /\ last.parsedData = data) => rows' = rows]_vars

\* The code without its Chinese characters.
RECURSIVE WithoutChinese(_)
WithoutChinese(code) ==
    IF code = <<>> THEN <<>>
    ELSE IF Head(code) \in ChineseChars THEN WithoutChinese(Tail(code))
    ELSE <<Head(code)>> \o WithoutChinese(Tail(code))

\* The code is the clock's 14 digits and a counter of three digits.
IsGenerated(code, clock) ==
    /\ Len(code) = 17
    /\ SubSeq(code, 1, 14) = timestampId(clock)
    /\ \A i \in 15..17 : \E d \in 1..10 : code[i] = DigitChars[d]

\* The first record of the result with the product name of record k.
FirstOfProduct(data, k) ==
    data[CHOOSE j \in 1..k :
            /\ data[j].productName = data[k].productName
            /\ \A m \in 1..(j - 1) : data[m].productName # data[k].productName]

\* The row the merge made of the i-th record it took.
MadeRow(i) == rows'[Len(rows) + i]

\* C23 as claimed: the rows made of one product's records carry one product
\* code; it is the code the collaborator gave the product when that code
\* has no Chinese character and more than two characters, and a generated
\* code otherwise.
C23_AiCodeReusedOnlyIfClean ==
    [][(last'.op = "extract" /\ Len(last'.parsedData) > 0) =>
          LET data == last'.parsedData
              acc == last'.accepted
          IN  /\ Len(rows') = Len(rows) + Len(acc)
              /\ \A i \in 1..Len(acc) :
                    LET aiCode == FirstOfProduct(data, acc[i]).skuCode
                    IN  IF WithoutChinese(aiCode) = aiCode /\ Len(aiCode) > 2
                        THEN MadeRow(i).cells[ColProductCode] = aiCode
                        ELSE IsGenerated(MadeRow(i).cells[ColProductCode], now')
              /\ \A i \in 1..Len(acc), j \in 1..Len(acc) :
                    data[acc[i]].productName = data[acc[j]].productName
                       => MadeRow(i).cells[ColProductCode] = MadeRow(j).cells[ColProductCode]]_vars

\* C23 as amended: the rows made of one product's records carry one product
\* code; it is the code the collaborator gave the product's first record,
\* its Chinese characters removed and trimmed, when more than two
\* characters are left of it, and a generated code otherwise.
C23_CleanedAiCodeReused ==
    [][(last'.op = "extract" /\ Len(last'.parsedData) > 0) =>
          LET data == last'.parsedData
              acc == last'.accepted
          IN  /\ Len(rows') = Len(rows) + Len(acc)
              /\ \A i \in 1..Len(acc) :
                    LET left == Trim(WithoutChinese(FirstOfProduct(data, acc[i]).skuCode))
                    IN  IF Len(left) > 2
                        THEN MadeRow(i).cells[ColProductCode] = left
                        ELSE IsGenerated(MadeRow(i).cells[ColProductCode], now')
              /\ \A i \in 1..Len(acc), j \in 1..Len(acc) :
                    data[acc[i]].productName = data[acc[j]].productName
                       => MadeRow(i).cells[ColProductCode] = MadeRow(j).cells[ColProductCode]]_vars

\* The first record of product A came with the code 红KKK: the two rows of
\* the product carry the product code KKK.
C23_Witness ==
    /\ last.op = "extract"
    /\ Len(last.parsedData) = 2
    /\ last.parsedData[1].skuCode = <<"U7EA2", "K", "K", "K">>
    /\ last.parsedData[1].productName = last.parsedData[2].productName
    /\ last.accepted = <<1, 2>>
    /\ Len(rows) = 2
    /\ rows[1].cells[ColProductCode] = <<"K", "K", "K">>
    /\ rows[2].cells[ColProductCode] = <<"K", "K", "K">>

\* C24: two rows with the same sku code, a code that is not empty, carry the
\* same product name and the same SKU spec; two rows with the same product
\* code, a code that is not empty, carry the same product name.
C24_CodesShareOnlyAsModelAllows ==
    \A i \in 1..Len(rows), j \in 1..Len(rows) :
        /\ (/\ CodeOf(rows[i], ColSkuCode) # <<>>
            /\ CodeOf(rows[i], ColSkuCode) = CodeOf(rows[j], ColSkuCode))
              => /\ CodeOf(rows[i], ColName) = CodeOf(rows[j], ColName)
                 /\ CodeOf(rows[i], ColSkuSpec) = CodeOf(rows[j], ColSkuSpec)
        /\ (/\ CodeOf(rows[i], ColProductCode) # <<>>
            /\ CodeOf(rows[i], ColProductCode) = CodeOf(rows[j], ColProductCode))
              => CodeOf(rows[i], ColName) = CodeOf(rows[j], ColName)

-----------------------------------------------------------------------------
(* The cleaning panel (CleaningPanel): tabs, the three buttons that call   *)
(* the collaborator, the answers of the calls and the reset button.  A     *)
(* handler runs up to its await when its button is clicked, with the       *)
(* currentRows of that render; the rest of it runs when the call answers.  *)
(* The bulk insert of detail images makes no call and is left out.         *)

Tabs == {"initial", "renaming", "sku_optimization"}

\* The column a kind of call rewrites.
ColumnOf(kind) == IF kind = "rename" THEN ColName ELSE ColSkuSpec

\* String(r[column] || '') of the rows, the empty strings dropped.
uniqueNames(currentRows, column) ==
    {currentRows[i].cells[column] :
        i \in {j \in 1..Len(currentRows) : Truthy(currentRows[j], column)}}

withoutCall(calls, i) == [k \in 1..(Len(calls) - 1) |-> IF k < i THEN calls[k] ELSE calls[k + 1]]

\* renameMap.has(key)
renameMapHas(results, key) == \E k \in 1..Len(results) : results[k].original = key

\* renameMap.get(key): the new value of the last item that names key
\* (item.new_name of a rename, item.optimized of an optimization).
renameMapGet(results, key) ==
    LET k == CHOOSE i \in 1..Len(results) :
                /\ results[i].original = key
                /\ \A j \in (i + 1)..Len(results) : results[j].original # key
    IN  results[k].new_name

\* The updates handleRename and handleSkuOptimize build of currentRows and
\* the collaborator's items; a row without the cell is looked up as '' and
\* given undefined, which is what it reads already.
panelUpdates(currentRows, results, column) ==
    LET hit(r) == renameMapHas(results, IF Truthy(r, column) THEN r.cells[column] ELSE <<>>)
        rs == SelectSeq(currentRows, hit)
    IN  [k \in 1..Len(rs) |->
            [id |-> rs[k].id,
             changes |-> IF Has(rs[k], column)
                         THEN (column :> renameMapGet(results, rs[k].cells[column]))
                         ELSE <<>>]]

SetActiveTab(tab) ==
    /\ activeTab' = tab
    /\ last' = [op |-> "setActiveTab", tab |-> tab]
    /\ UNCHANGED <<rows, saved, now, gridVars, isLoading, isConfirmingReset, inFlight>>

\* setIsLoading(true) and the call, awaited.
startCall(kind) ==
    /\ isLoading' = TRUE
    /\ inFlight' = Append(inFlight, [kind |-> kind, currentRows |-> rows])

\* The button of the first tab calling the collaborator whatever was typed.
ClickExtractUnguarded(inputText, apiKey) ==
    /\ activeTab = "initial"
    /\ ~isLoading
    /\ last' = [op |-> "clickExtract", inputText |-> inputText, apiKey |-> apiKey]
    /\ startCall("extract")
    /\ UNCHANGED <<rows, saved, now, gridVars, activeTab, isConfirmingReset>>

\* The button of the first tab, disabled while isLoading.
ClickExtract(inputText, apiKey) ==
    /\ activeTab = "initial"
    /\ ~isLoading
    /\ last' = [op |-> "clickExtract", inputText |-> inputText, apiKey |-> apiKey]
    /\ IF Trim(inputText) = <<>> \/ apiKey = <<>>
       THEN UNCHANGED <<isLoading, inFlight>>
       ELSE startCall("extract")
    /\ UNCHANGED <<rows, saved, now, gridVars, activeTab, isConfirmingReset>>

\* The buttons of the second and third tab, disabled while isLoading or
\* when there are no rows.
ClickRewrite(kind, apiKey, prompt) ==
    /\ activeTab = (IF kind = "rename" THEN "renaming" ELSE "sku_optimization")
    /\ ~isLoading
    /\ Len(rows) # 0
    /\ last' = [op |-> "clickRewrite", kind |-> kind, apiKey |-> apiKey, prompt |-> prompt]
    /\ IF \/ Len(rows) = 0
          \/ apiKey = <<>>
          \/ Trim(prompt) = <<>>
          \/ uniqueNames(rows, ColumnOf(kind)) = {}
       THEN UNCHANGED <<isLoading, inFlight>>
       ELSE startCall(kind)
    /\ UNCHANGED <<rows, saved, now, gridVars, activeTab, isConfirmingReset>>

\* handleInitialCleaning from its await on, the call answering with
\* parsedData.
ExtractReturns(i, parsedData, randoms) ==
    /\ i \in 1..Len(inFlight)
    /\ inFlight[i].kind = "extract"
    /\ now < MaxClock
    /\ now' = now + 1
    /\ last' = [op |-> "extractReturned", parsedData |-> parsedData]
    /\ IF Len(parsedData) = 0
       THEN UNCHANGED <<rows, saved, gridVars>>
       ELSE /\ rows' = handleAddRows(rows, cleanedRows(inFlight[i].currentRows, parsedData,
                                                       now', randoms))
            /\ GridFollows
            /\ saved' = JSONstringify(rows')
    /\ isLoading' = FALSE
    /\ inFlight' = withoutCall(inFlight, i)
    /\ UNCHANGED <<activeTab, isConfirmingReset>>

\* handleRename and handleSkuOptimize from their await on, the call
\* answering with results.
RewriteReturns(i, results) ==
    /\ i \in 1..Len(inFlight)
    /\ inFlight[i].kind # "extract"
    /\ LET column == ColumnOf(inFlight[i].kind)
           updates == panelUpdates(inFlight[i].currentRows, results, column)
       IN  /\ last' = [op |-> "rewriteReturned", column |-> column, results |-> results]
           /\ IF Len(results) = 0 \/ Len(updates) = 0
              THEN UNCHANGED <<rows, saved, gridVars>>
              ELSE /\ rows' = handleBatchUpdate(rows, updates)
                   /\ GridFollows
                   /\ saved' = JSONstringify(rows')
    /\ isLoading' = FALSE
    /\ inFlight' = withoutCall(inFlight, i)
    /\ UNCHANGED <<now, activeTab, isConfirmingReset>>

\* The catch and the finally of the three handlers: the call has thrown.
CallFails(i) ==
    /\ i \in 1..Len(inFlight)
    /\ last' = [op |-> "callFailed", kind |-> inFlight[i].kind]
    /\ isLoading' = FALSE
    /\ inFlight' = withoutCall(inFlight, i)
    /\ UNCHANGED <<rows, saved, now, gridVars, activeTab, isConfirmingReset>>

\* handleResetClick: the first click asks for the second, the second
\* clears the panel and the store.
ResetClick ==
    /\ last' = [op |-> "resetClick"]
    /\ IF ~isConfirmingReset
       THEN /\ isConfirmingReset' = TRUE
            /\ UNCHANGED <<rows, saved, gridVars, isLoading>>
       ELSE /\ isLoading' = FALSE
            /\ isConfirmingReset' = FALSE
            /\ rows' = <<>>
            /\ GridFollows
            /\ saved' = JSONstringify(rows')
    /\ UNCHANGED <<now, activeTab, inFlight>>

\* The timer that withdraws the question after 3 seconds.
ResetTimeout ==
    /\ isConfirmingReset
    /\ isConfirmingReset' = FALSE
    /\ last' = [op |-> "resetTimeout"]
    /\ UNCHANGED <<rows, saved, now, gridVars, activeTab, isLoading, inFlight>>

-----------------------------------------------------------------------------
(* SpecPanel: a store of no row or one row under an idle panel, then any   *)
(* sequence of clicks in the panel, answers and failures of the calls,     *)
(* and edits and removals in the grid.                                     *)

MaxInFlight == 2
MaxPanelRows == 1

PanelRow ==
    [id |-> 1, checkStatus |-> "unverified",
     cells |-> (ColName :> <<"A">>) @@ (ColSkuSpec :> <<"X">>)]

\* What the operator has typed into the text area, the key field and the
\* prompt field when a button is clicked.
InputTexts == {<<>>, <<" ">>, <<"t">>}
ApiKeys == {<<>>, <<"k">>}
Prompts == {<<>>, <<" ">>, <<"p">>}

\* The answers of the collaborator.
ExtractAnswers == {<<>>, <<[productName |-> <<"B">>, specs |-> <<>>, skuCode |-> <<>>]>>}

RewriteAnswers == {<<>>, <<[original |-> <<"A">>, new_name |-> <<"B">>]>>,
                   <<[original |-> <<"X">>, new_name |-> <<"B">>]>>}

\* What the operator types into a cell of the grid.
PanelEdits == {<<"C">>}

InitPanel ==
    /\ rows \in {<<>>, <<PanelRow>>}
    /\ last = [op |-> "init"]
    /\ now = 0
    /\ PanelIdle
    /\ GridIdle

NextPanel ==
    \/ \E tab \in Tabs : SetActiveTab(tab)
    \/ \E inputText \in InputTexts, apiKey \in ApiKeys :
          Len(inFlight) < MaxInFlight /\ ClickExtract(inputText, apiKey)
    \/ \E kind \in {"rename", "optimize"}, apiKey \in ApiKeys, prompt \in Prompts :
          Len(inFlight) < MaxInFlight /\ ClickRewrite(kind, apiKey, prompt)
    \/ \E i \in 1..Len(inFlight), parsedData \in ExtractAnswers, randoms \in MergeDraws :
          Len(rows) + Len(parsedData) <= MaxPanelRows /\ ExtractReturns(i, parsedData, randoms)
    \/ \E i \in 1..Len(inFlight), results \in RewriteAnswers : RewriteReturns(i, results)
    \/ \E i \in 1..Len(inFlight) : CallFails(i)
    \/ ResetClick
    \/ ResetTimeout
    \/ \E k \in 1..Len(rows), column \in {ColName, ColSkuSpec}, value \in PanelEdits :
          CellEdit(rows[k].id, column, value)
    \/ \E k \in 1..Len(rows) : RemoveRows({rows[k].id})

SpecPanel == InitPanel /\ [][NextPanel]_vars

-----------------------------------------------------------------------------
(* What the claims say of the calls the panel makes.                       *)

\* C25: at most one call of the collaborator is awaited at any time.
C25_OneCallInFlight == Len(inFlight) <= 1

C30_MergedAgainstCurrentRows ==
    [][last'.op = "rewriteReturned" =>
          /\ SameShape(rows, rows')
          /\ \A i \in 1..Len(rows) :
                rows'[i] # rows[i] =>
                   \E k \in 1..Len(last'.results) :
                      /\ CodeOf(rows[i], last'.column) = last'.results[k].original
                      /\ rows'[i].cells[last'.column] = last'.results[k].new_name]_vars

====
